---- MODULE Spec2Model ----
(***************************************************************************)
(* State-machine model of the fin_count administrative front end:         *)
(* the axios client with its response interceptor (services/api.js), the  *)
(* session context (contexts/AuthContext.jsx), the router and the         *)
(* unauthorized handler (App.jsx), the login page and the listing pages   *)
(* AdvancePaymentsPage, IncomeDocumentsPage, CurrenciesPage,              *)
(* CashRegistersPage and EmployeesPage.                                   *)
(*                                                                         *)
(* A request is a message in flight: it is issued by a handler and, when  *)
(* the server answers it, the response interceptor and then the promise   *)
(* continuation of the handler run (the Deliver actions).  A continuation *)
(* keeps the values its closure captured when the handler was called      *)
(* (query, editing target, the component instance whose setters it holds).*)
(***************************************************************************)
EXTENDS Integers, Sequences, FiniteSets, TLC

(***************************************************************************)
(* Bounds of the model.                                                    *)
(***************************************************************************)
MaxInFlight == 2     \* requests in flight at one time
MaxVer == 1          \* successful mutations of one collection
MaxPick == 1         \* rows of the table the user acts on (the first ones)
SrvPageSize == 2     \* rows the server puts on one page of an envelope

(***************************************************************************)
(* Program constants.                                                      *)
(***************************************************************************)
PageSize == 50       \* the divisor of Math.ceil(count / 50)

NaN == -1            \* Math.ceil(undefined / 50)
AbsentCount == -2    \* response.data.count is undefined
Absent == ""         \* an undefined (or empty, equally falsy) string

ListPages == {"advance", "income"}
RefPages == {"cashRegisters"}
Comp == ListPages \cup RefPages
FilterFields == {"cash_register", "currency", "date_from", "date_to"}
FilterValues == {"", "a"}
\* the filters the user changes
ChangedFields == {"cash_register", "date_from"}
NoFilters == [f \in FilterFields |-> ""]

Statuses == {200, 400, 401}
Mutations == {"create", "update", "delete"}

Min(a, b) == IF a < b THEN a ELSE b
Max(a, b) == IF a > b THEN a ELSE b

\* JavaScript a || b on strings: the empty and the undefined string are falsy
OrElse(a, b) == IF a # Absent THEN a ELSE b

\* Math.ceil(n / 50) for a number n >= 0
CeilDiv(n, d) == (n + d - 1) \div d

\* axios' own error.message of a response with a non-2xx status
TransportMessage(status) ==
  CASE status = 400 -> "Request failed with status code 400"
    [] status = 401 -> "Request failed with status code 401"
    [] OTHER -> "Network Error"

(***************************************************************************)
(* The collaborator REST server.  A collection has a number of rows and a *)
(* version that every successful mutation advances; a listing is a        *)
(* function of the collection and of the parameters sent.                 *)
(***************************************************************************)
\* the body of a response: a bare array (array), or an envelope with the
\* fields results and count; the fields a shape does not have are empty
NoData == [shape |-> "none", array |-> <<>>, results |-> <<>>, count |-> AbsentCount]

\* the filters of a parameter object (everything but page)
ParamFilters(params) == {<<f, params[f]>> : f \in DOMAIN params \ {"page"}}

Row(params, ver, k) == [id |-> k, ver |-> ver, key |-> ParamFilters(params)]

\* rows left from the first row of the page on
Remaining(total, pg) == Max(0, total - SrvPageSize * (pg - 1))

\* the rows the server answers a listing with, in its order: all of them
\* when it does not paginate, those of the page asked for when it does
ServerRows(shape, total, ver, params) ==
  LET pg == IF "page" \in DOMAIN params THEN params["page"] ELSE 1
      first == SrvPageSize * (pg - 1)
      n == IF shape = "array" THEN total
           ELSE Min(SrvPageSize, Remaining(total, pg))
  IN  [i \in 1..n |-> Row(params, ver, IF shape = "array" THEN i ELSE first + i)]

ServerList(shape, total, ver, params) ==
  IF shape = "array"
    THEN [shape |-> "array", array |-> ServerRows(shape, total, ver, params),
          results |-> <<>>, count |-> AbsentCount]
    ELSE [shape |-> "envelope", array |-> <<>>,
          results |-> ServerRows(shape, total, ver, params), count |-> total]

\* the bodies a failing response may carry
NoBody == [detail |-> Absent, message |-> Absent, error |-> Absent]
ErrorBodies ==
  {NoBody, [NoBody EXCEPT !.detail = "srv detail"],
   [NoBody EXCEPT !.message = "srv message"], [NoBody EXCEPT !.error = "srv error"]}

(***************************************************************************)
(* Normalisation of a listing response by the pages.                      *)
(***************************************************************************)
\* a normalisation that takes the body itself and never looks for results
DataOnly(data) == data.array

\* response.data.results || response.data: a bare array has no results, and
\* the results of an envelope are an array, which is truthy also when empty
ResultsOrData(data) == IF data.shape = "envelope" THEN data.results ELSE data.array

\* AdvancePaymentsPage: Math.ceil((data.count || data.length) / 50)
AdvancePageCount(data) ==
  IF data.count # AbsentCount /\ data.count # 0
    THEN CeilDiv(data.count, PageSize)
    ELSE IF data.shape = "array" THEN CeilDiv(Len(data.array), PageSize)
         ELSE NaN

\* IncomeDocumentsPage: Math.ceil((data.count || items.length) / 50) || 1
IncomePageCount(data) ==
  LET totalCount == IF data.count # AbsentCount /\ data.count # 0
                      THEN data.count ELSE Len(ResultsOrData(data))
      c == CeilDiv(totalCount, PageSize)
  IN  IF c = 0 THEN 1 ELSE c

\* params that spread the filters without dropping the empty ones
IncomeParamsUnfiltered(q) ==
  [x \in FilterFields \cup {"page"} |-> IF x = "page" THEN q.page ELSE q.filters[x]]

\* the params of incomeDocumentsAPI.getAll: page plus the filters v !== ''
IncomeParams(q) ==
  LET sent == {f \in FilterFields : q.filters[f] # ""}
  IN  [x \in sent \cup {"page"} |-> IF x = "page" THEN q.page ELSE q.filters[x]]

AdvanceParams(q) == [x \in {"page"} |-> q.page]

NoParams == [x \in {} |-> 0]

ListParams(c, q) ==
  CASE c = "income" -> IncomeParams(q)
    [] c = "advance" -> AdvanceParams(q)
    [] OTHER -> NoParams

(***************************************************************************)
(* Error texts of the catch blocks.                                        *)
(***************************************************************************)
NoError == [prefix |-> "", text |-> ""]

\* err.response?.data?.detail || err.message
DetailOrTransport(resp) == OrElse(resp.detail, TransportMessage(resp.status))

\* detail || message || err.message || 'Неизвестная ошибка'
IncomeLoadErrorText(resp) ==
  OrElse(resp.detail, OrElse(resp.message, OrElse(TransportMessage(resp.status), "unknown error")))

\* a login that reports the message of the transport only
LoginTransportText(resp) == OrElse(TransportMessage(resp.status), "login failed")

\* login: error.response?.data?.error || error.message || 'Ошибка авторизации',
\* then LoginPage: result.error || 'Ошибка авторизации'
LoginErrorText(resp) ==
  OrElse(OrElse(resp.error, OrElse(TransportMessage(resp.status), "login failed")),
         "login failed")

(***************************************************************************)
(* State.                                                                  *)
(***************************************************************************)
VARIABLES
  route,          \* the location the router renders: "login", "home" or a page
  user,           \* AuthContext user ("" is null)
  authLoading,    \* AuthContext loading
  onUnauthorized, \* api.js: the registered handler ("" is null)
  loginPage,      \* LoginPage state: username, password, error, submitting
  view,           \* the useState cells of the mounted page instance
  net,            \* requests in flight, with the closure of their continuation
  srv,            \* the server's collections
  last            \* the response handled by the last step (status 0: none)

vars == <<route, user, authLoading, onUnauthorized, loginPage, view, net, srv, last>>

NoUser == ""
NoRow == 0

NoQuery == [page |-> 1, filters |-> NoFilters]

\* the initial useState values of a page (the same cells for every page; a
\* page without pagination, filters, dialog or error never writes them), and
\* formValid: the fields of the form of the dialog pass its required rules
InitialView ==
  [items |-> <<>>, loading |-> TRUE, error |-> NoError, openDialog |-> FALSE,
   editing |-> NoRow, formValid |-> FALSE, page |-> 1, count |-> 0,
   filters |-> NoFilters, references |-> "initial"]

NoLogin == [username |-> "", password |-> "", error |-> "", submitting |-> FALSE]

Query == [page |-> view.page, filters |-> view.filters]

Request(id, kind, comp, q, target, caller) ==
  [id |-> id, kind |-> kind, comp |-> comp, live |-> TRUE, q |-> q,
   params |-> IF kind = "list" THEN ListParams(comp, q) ELSE NoParams,
   target |-> target, caller |-> caller, old |-> FALSE]

\* the page instance that issued r is still the one on screen
Mounted(r) == r.live

\* the requests of the page instance on screen lose their component when it
\* is unmounted; their continuations still run.  What such a continuation
\* never reads (the query of its closure) is not kept.
Orphan(reqs) ==
  {IF r.comp \in Comp
     THEN [r EXCEPT !.live = FALSE, !.q = NoQuery, !.params = NoParams, !.target = NoRow]
     ELSE r : r \in reqs}

\* request ids: the free slots of the in-flight table, smallest first
FreeIds == (1..MaxInFlight) \ {r.id : r \in net}
Smallest(S) == IF S = {} THEN 0 ELSE CHOOSE x \in S : \A y \in S : x <= y
NextId == Smallest(FreeIds)
SecondId == Smallest(FreeIds \ {NextId})

(***************************************************************************)
(* Rendering after a handler has run.                                      *)
(***************************************************************************)
\* the effect of LoginPage: it leaves /login for / once a user is present
LoginRedirect(rt, usr, ld) ==
  IF rt = "login" /\ ~ld /\ usr # NoUser THEN "home" ELSE rt

\* the guard around every other route: it leaves for /login once the probe
\* has been answered and there is no user
ProtectedRoute(rt, usr, ld) ==
  IF rt # "login" /\ ~ld /\ usr = NoUser THEN "login" ELSE rt

\* the location the router settles on after a handler asked for rt
Redirect(rt, usr, ld) == ProtectedRoute(LoginRedirect(rt, usr, ld), usr, ld)

\* commit of one handler: rt, usr, ld, lg and v are what the handler wrote.
\* The state of a page that is no longer rendered is released.
Commit(rt, usr, ld, lg, v, newNet) ==
  /\ route' = Redirect(rt, usr, ld)
  /\ user' = usr
  /\ authLoading' = ld
  /\ loginPage' = IF route' = "login" /\ route = "login" THEN lg ELSE NoLogin
  /\ view' = IF route' = route /\ route \in Comp THEN v ELSE InitialView
  /\ net' = IF route' = route THEN newNet ELSE Orphan(newNet)
  /\ UNCHANGED onUnauthorized

\* a step of the user handles no response.  round is the number, modulo 2, of
\* calls of the handler in a row that answer the handler's own logout request
NoLast == [status |-> 0, kind |-> "", comp |-> "", live |-> FALSE,
           detail |-> Absent, message |-> Absent, error |-> Absent, calls |-> 0,
           q |-> NoQuery,
           handler |-> "", rejected |-> FALSE, round |-> 0]
ByUser == last' = NoLast

\* n more requests fit into the in-flight table
CanIssue(n) == Cardinality(net) + n <= MaxInFlight

(***************************************************************************)
(* Initial state: the application is mounted, AuthHandler's effect has    *)
(* registered the handler and AuthProvider's effect has sent the probe.   *)
(***************************************************************************)
ServerConfigs ==
  { [shape |-> "array", total |-> 3], [shape |-> "envelope", total |-> 51],
    [shape |-> "envelope", total |-> 0] }

Init ==
  /\ route = "home"
  /\ user = NoUser
  /\ authLoading = TRUE
  /\ onUnauthorized = "AuthHandler"
  /\ loginPage = NoLogin
  /\ view = InitialView
  /\ net = {Request(1, "probe", "auth", NoQuery, NoRow, "checkAuth")}
  /\ last = NoLast
  /\ \E cfg \in ServerConfigs :
       srv = [shape |-> cfg.shape, coll |-> [c \in Comp |-> [total |-> cfg.total, ver |-> 0]]]

(***************************************************************************)
(* The load functions: setLoading(true), (setError(null)), issue getAll.  *)
(***************************************************************************)
\* the getAll of loadPayments / loadDocuments / loadCashRegisters, called by
\* page c with the query q of the closure of the load function
LoadRequest(id, c, q, caller) == Request(id, "list", c, q, NoRow, caller)

LoadStart(c, v) ==
  IF c = "income" THEN [v EXCEPT !.loading = TRUE, !.error = NoError]
  ELSE [v EXCEPT !.loading = TRUE]

\* loadReferences: the Promise.all of the reference listings, one message
RefsRequest(id, c) == Request(id, "refs", c, NoQuery, NoRow, "effect")

HasReferences(c) == c \in ListPages

\* the requests of the effect that runs after mount (and after a change of
\* its dependencies): the listing, and loadReferences where the effect calls it
EffectRequests(c, q, mount) ==
  {LoadRequest(NextId, c, q, "effect")}
    \cup IF (c = "advance") \/ (c = "income" /\ mount)
           THEN {RefsRequest(SecondId, c)} ELSE {}

(***************************************************************************)
(* User actions on the mounted page.  A control can be used when the      *)
(* render shows it: the table and the pagination are rendered only while  *)
(* loading is false, a reference page renders nothing but a spinner while *)
(* loading, and an open dialog is modal.                                  *)
(***************************************************************************)
\* the user follows a link of the layout (route c is a page or "home")
NavigateTo(c) ==
  /\ route # "login" /\ ~authLoading /\ user # NoUser
  /\ c \in Comp \cup {"home"} /\ c # route
  /\ IF c = "home"
       THEN /\ Commit("home", user, authLoading, loginPage, InitialView, net)
            /\ ByUser
            /\ UNCHANGED srv
       ELSE /\ CanIssue(IF HasReferences(c) THEN 2 ELSE 1)
            /\ route' = c
            /\ view' = InitialView
            /\ net' = Orphan(net) \cup EffectRequests(c, NoQuery, TRUE)
            /\ ByUser
            /\ UNCHANGED <<user, authLoading, onUnauthorized, loginPage, srv>>

\* a handler of the mounted page that only writes its state
Write(v) ==
  /\ view' = v
  /\ ByUser
  /\ UNCHANGED <<route, user, authLoading, onUnauthorized, loginPage, net, srv>>

\* a handler of the mounted page that writes its state and issues requests
WriteAndIssue(v, reqs) ==
  /\ CanIssue(Cardinality(reqs))
  /\ view' = v
  /\ net' = net \cup reqs
  /\ ByUser
  /\ UNCHANGED <<route, user, authLoading, onUnauthorized, loginPage, srv>>

HasDialog(c) == c = "advance" \/ c \in RefPages

\* the header and the dialog of a reference page are replaced by the spinner
Rendered(c) == c \in ListPages \/ ~view.loading

TableShown == ~view.loading /\ ~view.openDialog

\* setOpenDialog(false); the fields of a form that is not shown are not read
\* before the next handleCreate or handleEdit replaces them
Closed(v) == [v EXCEPT !.openDialog = FALSE, !.formValid = FALSE]

\* the form opens with defaults that leave required fields empty
HandleCreate ==
  /\ HasDialog(route) /\ Rendered(route) /\ ~view.openDialog
  /\ Write([view EXCEPT !.editing = NoRow, !.formValid = FALSE, !.openDialog = TRUE])

\* the form opens with the fields of the row
HandleEdit(k) ==
  /\ HasDialog(route) /\ TableShown
  /\ k \in 1..Len(view.items)
  /\ Write([view EXCEPT !.editing = view.items[k].id, !.formValid = TRUE,
                        !.openDialog = TRUE])

\* onClose of the dialog and the cancel button
CloseDialog ==
  /\ HasDialog(route) /\ Rendered(route) /\ view.openDialog
  /\ Write(Closed(view))

\* the user fills in, or empties, required fields of the form
EditForm(valid) ==
  /\ HasDialog(route) /\ Rendered(route) /\ view.openDialog
  /\ valid # view.formValid
  /\ Write([view EXCEPT !.formValid = valid])

\* handleSave / onSubmit, called by the form with valid data
HandleSave ==
  /\ HasDialog(route) /\ Rendered(route) /\ view.openDialog
  /\ WriteAndIssue(view,
       {Request(NextId, IF view.editing # NoRow THEN "update" ELSE "create",
                route, Query, view.editing, "handleSave")})

\* a form that hands its data to the page without looking at its rules
SubmitFormUnchecked == HandleSave

\* handleSubmit(onSubmit) of the form: the page's handler is called when the
\* fields pass the rules of their Controllers, else the form shows its errors
SubmitForm ==
  /\ HasDialog(route) /\ Rendered(route) /\ view.openDialog
  /\ IF view.formValid THEN HandleSave ELSE Write(view)

\* handleDelete of the two document pages, with the answer to window.confirm
HandleDelete(k, confirmed) ==
  /\ route \in ListPages /\ TableShown
  /\ k \in 1..Len(view.items)
  /\ IF confirmed
       THEN WriteAndIssue(view,
              {Request(NextId, "delete", route, Query, view.items[k].id, "handleDelete")})
       ELSE ByUser /\ UNCHANGED <<route, user, authLoading, onUnauthorized, loginPage, view, net, srv>>

\* Pagination onChange: setPage(value), then the effect on [page, ...]
SetPage(p) ==
  /\ route \in ListPages /\ TableShown
  /\ view.count > 1 /\ p \in 1..view.count /\ p # view.page
  /\ LET v == [view EXCEPT !.page = p]
         q == [page |-> p, filters |-> view.filters]
     IN  WriteAndIssue(LoadStart(route, v), EffectRequests(route, q, FALSE))

\* handleFilterChange that calls loadDocuments itself: the request carries the
\* page and the filters of the render in which the input changed
HandleFilterChangeLoadsDirectly(f, val) ==
  /\ route = "income"
  /\ f \in FilterFields /\ val \in FilterValues /\ val # view.filters[f]
  /\ LET fs == [view.filters EXCEPT ![f] = val]
         v == [view EXCEPT !.filters = fs, !.page = 1]
     IN  WriteAndIssue(LoadStart(route, v), EffectRequests(route, Query, FALSE))

\* handleFilterChange without its setPage(1)
HandleFilterChangeKeepsPage(f, val) ==
  /\ route = "income"
  /\ f \in FilterFields /\ val \in FilterValues /\ val # view.filters[f]
  /\ LET fs == [view.filters EXCEPT ![f] = val]
         v == [view EXCEPT !.filters = fs]
         q == [page |-> view.page, filters |-> fs]
     IN  WriteAndIssue(LoadStart(route, v), EffectRequests(route, q, FALSE))

\* handleFilterChange: setFilters, setPage(1), then the effect
HandleFilterChange(f, val) ==
  /\ route = "income"
  /\ f \in FilterFields /\ val \in FilterValues /\ val # view.filters[f]
  /\ LET fs == [view.filters EXCEPT ![f] = val]
         v == [view EXCEPT !.filters = fs, !.page = 1]
         q == [page |-> 1, filters |-> fs]
     IN  WriteAndIssue(LoadStart(route, v), EffectRequests(route, q, FALSE))

\* onClose of the error Alert
DismissError ==
  /\ route \in ListPages /\ view.error # NoError
  /\ Write([view EXCEPT !.error = NoError])

(***************************************************************************)
(* Login page and layout.                                                  *)
(***************************************************************************)
\* onChange of the two inputs (disabled while the form is submitting)
SetUsername(u) ==
  /\ route = "login" /\ ~authLoading /\ ~loginPage.submitting
  /\ u # loginPage.username
  /\ loginPage' = [loginPage EXCEPT !.username = u]
  /\ ByUser
  /\ UNCHANGED <<route, user, authLoading, onUnauthorized, view, net, srv>>

SetPassword(p) ==
  /\ route = "login" /\ ~authLoading /\ ~loginPage.submitting
  /\ p # loginPage.password
  /\ loginPage' = [loginPage EXCEPT !.password = p]
  /\ ByUser
  /\ UNCHANGED <<route, user, authLoading, onUnauthorized, view, net, srv>>

ValidationText == "enter user name and password"

\* a handleSubmit that calls login() whatever the inputs hold
LoginSubmitUnchecked ==
  /\ route = "login" /\ ~authLoading /\ ~loginPage.submitting
  /\ ByUser
  /\ CanIssue(1)
  /\ loginPage' = [loginPage EXCEPT !.error = "", !.submitting = TRUE]
  /\ net' = net \cup {Request(NextId, "login", "auth", NoQuery, NoRow, "handleSubmit")}
  /\ UNCHANGED <<route, user, authLoading, onUnauthorized, view, srv>>

\* LoginPage.handleSubmit
LoginSubmit ==
  /\ route = "login" /\ ~authLoading /\ ~loginPage.submitting
  /\ ByUser
  /\ IF loginPage.username = "" \/ loginPage.password = ""
       THEN /\ loginPage' = [loginPage EXCEPT !.error = ValidationText, !.submitting = FALSE]
            /\ UNCHANGED <<route, user, authLoading, onUnauthorized, view, net, srv>>
       ELSE /\ CanIssue(1)
            /\ loginPage' = [loginPage EXCEPT !.error = "", !.submitting = TRUE]
            /\ net' = net \cup {Request(NextId, "login", "auth", NoQuery, NoRow, "handleSubmit")}
            /\ UNCHANGED <<route, user, authLoading, onUnauthorized, view, srv>>

\* Layout.handleLogout: await logout(), then navigate('/login')
HandleLogout ==
  /\ route # "login" /\ ~authLoading /\ user # NoUser
  /\ CanIssue(1)
  /\ net' = net \cup {Request(NextId, "logout", "auth", NoQuery, NoRow, "handleLogout")}
  /\ ByUser
  /\ UNCHANGED <<route, user, authLoading, onUnauthorized, loginPage, view, srv>>

(***************************************************************************)
(* The server's answer to a request.                                       *)
(***************************************************************************)
Mutate(coll, kind) ==
  [total |-> CASE kind = "create" -> coll.total + 1
               [] kind = "delete" -> Max(0, coll.total - 1)
               [] OTHER -> coll.total,
   ver |-> coll.ver + 1]

\* the answer of the server to r with status st and error body b
Response(r, st, b) ==
  [status |-> st, detail |-> b.detail, message |-> b.message, error |-> b.error,
   data |-> IF st = 200 /\ r.kind = "list"
              THEN ServerList(srv.shape, srv.coll[r.comp].total, srv.coll[r.comp].ver, r.params)
              ELSE NoData]

(***************************************************************************)
(* The client receives a response: the response interceptor of api.js,    *)
(* then the continuation of the handler that awaits the request.          *)
(***************************************************************************)
Ok(resp) == resp.status = 200

\* the error callback of the interceptor ends with Promise.reject(error): the
\* caller of a request that failed gets a rejection
Rejected(resp) == ~Ok(resp)

\* an interceptor that calls the handler only while a user is signed in
InterceptedWhileSignedIn(resp) ==
  resp.status = 401 /\ onUnauthorized # "" /\ user # NoUser

\* the interceptor calls the registered handler for a 401
Intercepted(resp) == resp.status = 401 /\ onUnauthorized # ""

\* the handler AuthHandler registers: logout(), navigate('/login')
UnauthorizedRequests(r, resp) ==
  IF Intercepted(resp)
    THEN {Request(r.id, "logout", "auth", NoQuery, NoRow, "onUnauthorized")}
    ELSE {}

\* a handler that calls logout() and does not navigate
RouteKeptByInterceptor(resp) == route

\* the location after the interceptor has run: the handler navigates to /login
RouteAfterInterceptor(resp) == IF Intercepted(resp) THEN "login" ELSE route

\* the server answers r: a mutation it accepts changes the collection
Answers(r, resp) ==
  /\ r \in net
  /\ resp.status = 200 /\ r.kind \in Mutations => srv.coll[r.comp].ver < MaxVer
  /\ srv' = IF resp.status = 200 /\ r.kind \in Mutations
              THEN [srv EXCEPT !.coll[r.comp] = Mutate(@, r.kind)]
              ELSE srv
  /\ last' = [status |-> resp.status, kind |-> r.kind, comp |-> r.comp, live |-> r.live,
              detail |-> resp.detail, message |-> resp.message, error |-> resp.error,
              calls |-> Cardinality(UnauthorizedRequests(r, resp)),
              q |-> IF r.kind = "list" /\ r.live THEN r.q ELSE NoQuery,
              handler |-> IF Intercepted(resp) THEN onUnauthorized ELSE "",
              rejected |-> Rejected(resp),
              round |-> IF Intercepted(resp) /\ r.caller = "onUnauthorized"
                          THEN 1 - last.round ELSE 0]

\* load functions whose catch calls the load function again
FailureRetries(r, resp) ==
  IF resp.status = 400 /\ r.kind = "list"
    THEN {[LoadRequest(r.id, r.comp, r.q, "retry") EXCEPT !.live = r.live]}
    ELSE {}

\* the requests the catch-branch of a load function issues: none
FailureRequests(r, resp) == {}

\* a try-branch that adds the rows of the response to the rows on screen
ListSuccessAppends(c, v, data) ==
  [v EXCEPT !.items = IF Len(v.items) <= Len(ResultsOrData(data))
                        THEN v.items \o ResultsOrData(data) ELSE ResultsOrData(data),
            !.count = IF c = "advance" THEN AdvancePageCount(data)
                      ELSE IF c = "income" THEN IncomePageCount(data) ELSE v.count,
            !.loading = FALSE]

\* try-branch of the load functions
ListSuccess(c, v, data) ==
  CASE c = "advance" ->
         [v EXCEPT !.items = ResultsOrData(data), !.count = AdvancePageCount(data),
                   !.loading = FALSE]
    [] c = "income" ->
         [v EXCEPT !.items = ResultsOrData(data), !.count = IncomePageCount(data),
                   !.loading = FALSE]
    [] OTHER -> [v EXCEPT !.items = ResultsOrData(data), !.loading = FALSE]

\* a catch-branch that keeps the rows and the page count in both pages
ListFailureKeepsItems(c, v, resp) ==
  CASE c = "advance" ->
         [v EXCEPT !.error = [prefix |-> "load", text |-> DetailOrTransport(resp)],
                   !.loading = FALSE]
    [] c = "income" ->
         [v EXCEPT !.error = [prefix |-> "load", text |-> IncomeLoadErrorText(resp)],
                   !.loading = FALSE]
    [] OTHER -> [v EXCEPT !.loading = FALSE]

\* catch-branch of the load functions
ListFailure(c, v, resp) ==
  CASE c = "advance" ->
         [v EXCEPT !.error = [prefix |-> "load", text |-> DetailOrTransport(resp)],
                   !.loading = FALSE]
    [] c = "income" ->
         [v EXCEPT !.error = [prefix |-> "load", text |-> IncomeLoadErrorText(resp)],
                   !.items = <<>>, !.count = 0, !.loading = FALSE]
    [] OTHER -> [v EXCEPT !.loading = FALSE]

\* a catch-branch of handleSave / onSubmit that closes the dialog
MutationFailureClosesDialog(c, kind, v, resp) ==
  IF c \in ListPages
    THEN [Closed(v) EXCEPT !.error = [prefix |-> IF kind = "delete" THEN "delete" ELSE "save",
                                      text |-> DetailOrTransport(resp)]]
    ELSE Closed(v)

\* catch-branch of handleSave / onSubmit / handleDelete
MutationFailure(c, kind, v, resp) ==
  IF c \in ListPages
    THEN [v EXCEPT !.error = [prefix |-> IF kind = "delete" THEN "delete" ELSE "save",
                              text |-> DetailOrTransport(resp)]]
    ELSE v

\* loadPayments / loadDocuments / loadCashRegisters after the await
DeliverList(r, resp) ==
  /\ Answers(r, resp) /\ r.kind = "list"
  /\ LET v == IF ~Mounted(r) THEN view
              ELSE IF Ok(resp) THEN ListSuccess(r.comp, view, resp.data)
              ELSE ListFailure(r.comp, view, resp)
     IN  Commit(RouteAfterInterceptor(resp), user, authLoading, loginPage, v,
                (net \ {r}) \cup UnauthorizedRequests(r, resp) \cup FailureRequests(r, resp))

\* loadReferences: setReferences on success; IncomeDocumentsPage empties on failure
DeliverRefs(r, resp) ==
  /\ Answers(r, resp) /\ r.kind = "refs"
  /\ LET v == IF ~Mounted(r) THEN view
              ELSE IF Ok(resp) THEN [view EXCEPT !.references = "loaded"]
              ELSE IF r.comp = "income" THEN [view EXCEPT !.references = "empty"]
              ELSE view
     IN  Commit(RouteAfterInterceptor(resp), user, authLoading, loginPage, v,
                (net \ {r}) \cup UnauthorizedRequests(r, resp))

\* the load function a mutation handler calls on success: the one of its closure
ReloadRequest(r) ==
  [LoadRequest(r.id, r.comp, r.q, "afterMutation") EXCEPT !.live = r.live]

\* continuation of handleSave / onSubmit / handleDelete: on success
\* setOpenDialog(false) (save only) and the load function
DeliverMutation(r, resp) ==
  /\ Answers(r, resp) /\ r.kind \in Mutations
  /\ IF Ok(resp)
       THEN LET closed == IF r.kind = "delete" THEN view ELSE Closed(view)
                v == IF Mounted(r) THEN LoadStart(r.comp, closed) ELSE view
            IN  Commit(route, user, authLoading, loginPage, v,
                       (net \ {r}) \cup {ReloadRequest(r)})
       ELSE LET v == IF Mounted(r) THEN MutationFailure(r.comp, r.kind, view, resp)
                     ELSE view
            IN  Commit(RouteAfterInterceptor(resp), user, authLoading, loginPage, v,
                       (net \ {r}) \cup UnauthorizedRequests(r, resp))

\* AuthProvider.checkAuth
DeliverProbe(r, resp) ==
  /\ Answers(r, resp) /\ r.kind = "probe"
  /\ Commit(RouteAfterInterceptor(resp), IF Ok(resp) THEN "user" ELSE NoUser, FALSE,
            loginPage, view, (net \ {r}) \cup UnauthorizedRequests(r, resp))

\* the requests in flight when a login succeeds were issued before the
\* session it establishes
BeforeSession(reqs) == {[t EXCEPT !.old = TRUE] : t \in reqs}

\* AuthProvider.login, then the rest of LoginPage.handleSubmit
DeliverLogin(r, resp) ==
  /\ Answers(r, resp) /\ r.kind = "login"
  /\ IF Ok(resp)
       THEN Commit("home", "user", authLoading, [loginPage EXCEPT !.submitting = FALSE], view,
                   BeforeSession(net \ {r}))
       ELSE Commit(RouteAfterInterceptor(resp), user, authLoading,
                   [loginPage EXCEPT !.error = LoginErrorText(resp), !.submitting = FALSE],
                   view, (net \ {r}) \cup UnauthorizedRequests(r, resp))

\* a logout that clears the user only when the server has accepted it
DeliverLogoutOnSuccess(r, resp) ==
  /\ Answers(r, resp) /\ r.kind = "logout"
  /\ Commit(IF r.caller = "handleLogout" THEN "login" ELSE RouteAfterInterceptor(resp),
            IF Ok(resp) THEN NoUser ELSE user, authLoading, loginPage, view,
            (net \ {r}) \cup UnauthorizedRequests(r, resp))

\* a logout whose setUser(null) follows the await inside the try
UserKeptOnFailure(resp) == IF Ok(resp) THEN NoUser ELSE user

\* the user after logout: setUser(null) in the finally
UserAfterLogout(resp) == NoUser

\* AuthProvider.logout: setUser(null) whatever the answer; Layout.handleLogout
\* then navigates to /login
DeliverLogout(r, resp) ==
  /\ Answers(r, resp) /\ r.kind = "logout"
  /\ Commit(IF r.caller = "handleLogout" THEN "login" ELSE RouteAfterInterceptor(resp),
            UserAfterLogout(resp), authLoading, loginPage, view,
            (net \ {r}) \cup UnauthorizedRequests(r, resp))

Deliver(r, resp) ==
  \/ DeliverList(r, resp)
  \/ DeliverRefs(r, resp)
  \/ DeliverMutation(r, resp)
  \/ DeliverProbe(r, resp)
  \/ DeliverLogin(r, resp)
  \/ DeliverLogout(r, resp)

\* the continuations that read the body of a failing response: the catch
\* blocks of the two document pages, while their instance is mounted
ReadsBody(r) == r.live /\ r.comp \in ListPages /\ r.kind \in Mutations \cup {"list"}

\* the fields of the body that the continuation of r reads: detail and
\* message in the document pages, error in login
Reads(r, b) ==
  IF r.kind = "login" THEN b.detail = Absent /\ b.message = Absent
  ELSE ReadsBody(r) /\ b.error = Absent

\* the server answers a request in flight and the client handles the answer
Network ==
  \E r \in net, st \in Statuses, b \in ErrorBodies :
    /\ b # NoBody => st = 400 /\ Reads(r, b)
    /\ Deliver(r, Response(r, st, b))

Usernames == {"", "admin"}
Passwords == {"", "secret"}

LoginForm ==
  \/ \E u \in Usernames : SetUsername(u)
  \/ \E p \in Passwords : SetPassword(p)
  \/ LoginSubmit

Session == LoginForm \/ HandleLogout

\* the user opens the dialog for a new row, fills in its form and submits it
Creating ==
  \/ HandleCreate
  \/ \E valid \in BOOLEAN : EditForm(valid)
  \/ SubmitForm

Dialog ==
  \/ Creating
  \/ \E k \in 1..MaxPick : HandleEdit(k)
  \/ CloseDialog

Paging == \E p \in 1..view.count : SetPage(p)

Deleting == \E k \in 1..MaxPick, confirmed \in BOOLEAN : HandleDelete(k, confirmed)

Listing == Deleting \/ Paging \/ DismissError

Filtering == \E f \in ChangedFields, val \in FilterValues : HandleFilterChange(f, val)

Visit(pages) == \E c \in pages \cup {"home"} : NavigateTo(c)

Next == Visit(Comp) \/ Dialog \/ Listing \/ Filtering \/ Session \/ Network

Spec == Init /\ [][Next]_vars

\* the runs in which the user visits one page only
NextIncome == Visit({"income"}) \/ Listing \/ Filtering \/ Network
SpecIncome == Init /\ [][NextIncome]_vars

\* the runs in which the user opens the income documents and only pages and
\* filters them
NextFilters == NavigateTo("income") \/ Paging \/ Filtering \/ Network
SpecFilters == Init /\ [][NextFilters]_vars

\* the runs in which the user opens the advance payments and only pages
\* through them and deletes rows
NextPayments == NavigateTo("advance") \/ Paging \/ Deleting \/ Network
SpecPayments == Init /\ [][NextPayments]_vars

\* the runs in which the user opens the two document pages and pages through
\* them
NextDocuments == (\E c \in ListPages : NavigateTo(c)) \/ Paging \/ Network
SpecDocuments == Init /\ [][NextDocuments]_vars

NextAdvance == Visit({"advance"}) \/ Dialog \/ Listing \/ Network
SpecAdvance == Init /\ [][NextAdvance]_vars

\* the runs in which the user visits a reference page only
NextReference == Visit(RefPages) \/ Dialog \/ Network
SpecReference == Init /\ [][NextReference]_vars

\* the runs in which the user opens a reference page and works with its dialog
NextSaving == (\E c \in RefPages : NavigateTo(c)) \/ Dialog \/ Network
SpecSaving == Init /\ [][NextSaving]_vars

\* the runs in which the user signs in and out and visits a reference page
NextSession == Visit(RefPages) \/ Session \/ Network
SpecSession == Init /\ [][NextSession]_vars

\* the runs in which the user signs in, opens the cash registers and creates
\* rows
NextForms == NavigateTo("cashRegisters") \/ Creating \/ LoginForm \/ Network
SpecForms == Init /\ [][NextForms]_vars

(***************************************************************************)
(* services/api.js on its own: whoever imports it may register handlers   *)
(* and call its methods in any order.                                      *)
(***************************************************************************)
Handlers == {"", "AuthHandler", "replacement"}

\* the module has been loaded: no handler is registered, nothing is in flight
InitApi ==
  /\ route = "home" /\ user = NoUser /\ authLoading = TRUE
  /\ loginPage = NoLogin /\ view = InitialView
  /\ onUnauthorized = ""
  /\ net = {}
  /\ last = NoLast
  /\ \E cfg \in ServerConfigs :
       srv = [shape |-> cfg.shape, coll |-> [c \in Comp |-> [total |-> cfg.total, ver |-> 0]]]

\* a setUnauthorizedHandler that keeps the handler registered first
KeepFirstHandler(h) ==
  /\ h # onUnauthorized
  /\ onUnauthorized' = IF onUnauthorized = "" THEN h ELSE onUnauthorized
  /\ last' = [NoLast EXCEPT !.kind = "register", !.handler = h]
  /\ UNCHANGED <<route, user, authLoading, loginPage, view, net, srv>>

\* setUnauthorizedHandler(h)
SetUnauthorizedHandler(h) ==
  /\ h # onUnauthorized
  /\ onUnauthorized' = h
  /\ last' = [NoLast EXCEPT !.kind = "register", !.handler = h]
  /\ UNCHANGED <<route, user, authLoading, loginPage, view, net, srv>>

\* a method of one of the API objects is called
Send(kind) ==
  /\ CanIssue(1)
  /\ net' = net \cup {Request(NextId, kind, IF kind = "list" THEN "cashRegisters" ELSE "auth",
                               NoQuery, NoRow, "importer")}
  /\ ByUser
  /\ UNCHANGED <<route, user, authLoading, onUnauthorized, loginPage, view, srv>>

\* the server answers r and the interceptor has run; what the caller and the
\* handler do next is theirs
Respond(r, st) ==
  /\ Answers(r, Response(r, st, NoBody))
  /\ net' = net \ {r}
  /\ UNCHANGED <<route, user, authLoading, onUnauthorized, loginPage, view>>

NextApi ==
  \/ \E h \in Handlers : SetUnauthorizedHandler(h)
  \/ \E kind \in {"list", "login"} : Send(kind)
  \/ \E r \in net, st \in Statuses : Respond(r, st)
SpecApi == InitApi /\ [][NextApi]_vars

\* the request in slot i of the in-flight table is answered
DeliverSlot(i) ==
  \E r \in net, st \in Statuses, b \in ErrorBodies :
    /\ r.id = i
    /\ b # NoBody => st = 400 /\ Reads(r, b)
    /\ Deliver(r, Response(r, st, b))

\* the same runs, in which every request in flight is answered in the end
SpecSessionFair ==
  Init /\ [][NextSession]_vars /\ \A i \in 1..MaxInFlight : WF_vars(DeliverSlot(i))

\* no logout request of the unauthorized handler is in flight
HandlerIdle == \A r \in net : r.caller # "onUnauthorized"

\* the runs in which the user leaves the application alone while a logout
\* request of the unauthorized handler is in flight, and every request in
\* flight is answered in the end
QuietVisit == HandlerIdle /\ Visit(RefPages)
QuietSession == HandlerIdle /\ Session
NextQuiet == QuietVisit \/ QuietSession \/ Network
SpecQuietFair ==
  Init /\ [][NextQuiet]_vars /\ \A i \in 1..MaxInFlight : WF_vars(DeliverSlot(i))

TypeOK ==
  /\ route \in Comp \cup {"home", "login"}
  /\ user \in {NoUser, "user"}
  /\ Cardinality(net) <= MaxInFlight
  /\ \A r, t \in net : r.id = t.id => r = t

(***************************************************************************)
(* Properties.                                                             *)
(***************************************************************************)
\* the mutation requests of the page instance on screen that are in flight
PendingMutations == {r \in net : r.live /\ r.kind \in Mutations}

\* the requests issued by the step: those in flight after it that are not a
\* request in flight before it (which the step may have left without its page)
Issued ==
  {t \in net' : \A r \in net : r.id = t.id => r.kind # t.kind \/ r.caller # t.caller}

\* the step is the continuation of request r of the page instance on screen,
\* answered with status st, and the page stays on screen
Settles(r, st) ==
  /\ r \in net /\ r.live /\ r \notin net'
  /\ last'.status = st /\ last'.kind = r.kind /\ last'.comp = r.comp
  /\ route' = route

\* C1: at most one mutation (create, update or delete) of one page is in
\* flight at any time.
SingleFlightMutations == Cardinality(PendingMutations) <= 1

\* C2: a mutation called while another mutation of the same page is pending
\* issues no request.
SecondMutationRejected ==
  [][PendingMutations # {} =>
       {r \in net' : r.live /\ r.kind \in Mutations} \subseteq PendingMutations]_vars

\* C3: the response of a list request whose query is no longer the query of
\* the page changes neither the items, nor the page count, nor the error.
StaleListIgnored ==
  [][\A r \in net, st \in Statuses :
       Settles(r, st) /\ r.kind = "list" /\ r.q # Query =>
         view'.items = view.items /\ view'.count = view.count /\ view'.error = view.error]_vars

ReloadUsesCurrentQuery ==
  [][\A r \in net :
       Settles(r, 200) /\ r.kind \in Mutations =>
         /\ Cardinality(Issued) = 1
         /\ \A t \in Issued :
              t.kind = "list" /\ t.q = [page |-> view'.page, filters |-> view'.filters]]_vars

\* C6: a mutation that fails leaves the items and the page count as they
\* were, issues no list request and leaves an error on the page.
FailedMutationReported ==
  [][\A r \in net :
       Settles(r, 400) /\ r.kind \in Mutations =>
         /\ view'.items = view.items /\ view'.count = view.count
         /\ \A t \in Issued : t.kind # "list"
         /\ view'.error # NoError]_vars

\* C7: the step that handles a response calls the unauthorized handler once
\* when the status is 401, whatever the request and whoever issued it, and
\* does not call it for any other status.
UnauthorizedCallsHandlerOnce ==
  /\ last.status = 401 => last.calls = 1
  /\ last.status # 401 => last.calls = 0

\* a 401 has just been handled and the logout of the handler is in flight
UnauthorizedHandled ==
  /\ last.status = 401 /\ last.calls = 1
  /\ \E r \in net : r.kind = "logout" /\ r.caller = "onUnauthorized"

\* C8: a 401 to a list or mutation request of a page leaves no error on the
\* page, and no page ever shows the text of a 401.
UnauthorizedLeavesNoPageError ==
  /\ last.status = 401 /\ last.kind \in Mutations \cup {"list"} => view.error = NoError
  /\ view.error.text # TransportMessage(401)

\* a 401 to a request of the advance payments page on screen has just been
\* handled
UnauthorizedOnPage ==
  /\ last.status = 401 /\ last.live /\ last.comp = "advance"
  /\ last.kind \in Mutations \cup {"list"}

\* C9: a 401 to a request that a page issued during an earlier session, handled
\* after a later login has succeeded, does not call the unauthorized handler
\* and leaves the user signed in and the location as it is.
StaleUnauthorizedIgnored ==
  [][\A r \in net :
       r.old /\ r.comp \in Comp /\ r \notin net' /\ last'.status = 401 /\ last'.kind = r.kind =>
         last'.calls = 0 /\ user' = user /\ route' = route]_vars

\* C10: after a failure other than a 401 of a list or mutation request, the
\* error on the page is the message of the server when the body has one and
\* the message of the transport only when it has none.
ServerMessageSurfaced ==
  last.status = 400 /\ last.live /\ last.kind \in Mutations \cup {"list"} /\ last.comp = route =>
    LET m == OrElse(last.detail, last.message)
    IN  view.error.text = IF m # Absent THEN m ELSE TransportMessage(400)

\* C11: once a listing page has finished a listing, with success or with
\* failure, its page count is at least 1.
PageCountAtLeastOne ==
  route \in ListPages /\ ~view.loading => view.count >= 1

\* the body the server answers the list request r with
Listed(r) ==
  ServerList(srv.shape, srv.coll[r.comp].total, srv.coll[r.comp].ver, r.params)

\* the total of a listing: its count when it carries one, else the number of
\* its items
TotalCount(data) ==
  IF data.count # AbsentCount THEN data.count ELSE Len(data.array)

\* C12: after a successful listing the page count is the one of the total of
\* the response (its count when present, else the number of its items),
\* clamped to 1 or not.
PageCountFromTotal ==
  [][\A r \in net :
       Settles(r, 200) /\ r.kind = "list" /\ r.comp \in ListPages =>
         LET pages == CeilDiv(TotalCount(Listed(r)), PageSize)
         IN  view'.count \in {pages, Max(1, pages)}]_vars

\* C13: after a successful listing the items of the page are the rows of the
\* response in the order of the server, whether the response is a bare array
\* or an envelope with results (none when the results are empty).
ItemsAreServerRows ==
  [][\A r \in net :
       Settles(r, 200) /\ r.kind = "list" =>
         view'.items = ServerRows(srv.shape, srv.coll[r.comp].total,
                                  srv.coll[r.comp].ver, r.params)]_vars

\* the page shows the rows of an envelope it has just listed
EnvelopeListed ==
  /\ last.status = 200 /\ last.kind = "list" /\ last.live
  /\ srv.shape = "envelope" /\ ~view.loading /\ Len(view.items) > 1

\* the list requests the page on screen has in flight
PendingLists == {r \in net : r.live /\ r.kind = "list" /\ r.comp \in ListPages}

\* C14: the parameters of a list request are the page and exactly the
\* filters of its query whose value is not empty, each with its value.
OnlySetFiltersSent ==
  \A r \in PendingLists :
    /\ DOMAIN r.params = {"page"} \cup {f \in FilterFields : r.q.filters[f] # ""}
    /\ r.params["page"] = r.q.page
    /\ \A f \in DOMAIN r.params \ {"page"} : r.params[f] = r.q.filters[f]

\* a list request for a query with one filter set and another one empty
SomeFiltersSent ==
  \E r \in PendingLists :
    /\ r.q.filters["cash_register"] = "a" /\ r.q.filters["date_from"] = ""
    /\ "cash_register" \in DOMAIN r.params /\ "date_from" \notin DOMAIN r.params

\* C15: the continuation of a request whose page has been unmounted writes
\* nothing to the state of the page on screen and issues no request for the
\* unmounted page.
TeardownIsNoOp ==
  [][\A r \in net :
       /\ ~r.live /\ r.comp \in Comp /\ r \notin net'
       /\ last'.kind = r.kind /\ last'.comp = r.comp /\ ~last'.live
       => /\ route' = route => view' = view
          /\ \A t \in Issued : t.comp \notin Comp]_vars

\* C16: a list request is issued only by a step of the user (mount, page,
\* filter) or by the success of a mutation, never by the failure of a list
\* request.
NoAutomaticRetry ==
  [][(\E t \in Issued : t.kind = "list") =>
       last' = NoLast \/ (last'.status = 200 /\ last'.kind \in Mutations)]_vars

\* the listing of the page on screen has just failed and the page has no
\* list request in flight
ListFailedAndIdle ==
  /\ last.status = 400 /\ last.kind = "list" /\ last.live /\ route = last.comp
  /\ view.error # NoError
  /\ \A r \in net : r.kind # "list"

\* C17: when the step before has listed a query with success and this step
\* lists the same query with success, the items and the page count of the
\* page stay as they are (no mutation has been answered in between).
ListIsIdempotent ==
  [][\A r \in net :
       /\ Settles(r, 200) /\ r.kind = "list"
       /\ last.status = 200 /\ last.kind = "list" /\ last.live
       /\ last.comp = r.comp /\ last.q = r.q
       => view'.items = view.items /\ view'.count = view.count]_vars

\* a query has just been listed with success, with rows, and a second list
\* request for the same query is in flight
ListedTwice ==
  /\ last.status = 200 /\ last.kind = "list" /\ last.live /\ view.items # <<>>
  /\ \E r \in PendingLists : r.comp = last.comp /\ r.q = last.q

\* C18: when the probe has been answered there is a user exactly if it
\* succeeded, and after every 401 there is, in the end, no user.
SessionLifecycle ==
  /\ [](last.kind = "probe" => (user # NoUser <=> last.status = 200))
  /\ (last.status = 401) ~> (user = NoUser)

\* a request of a page has been answered 401 while a user is signed in, and
\* the logout of the handler is in flight
UnauthorizedWhileSignedIn ==
  /\ last.status = 401 /\ last.comp \in Comp /\ user # NoUser
  /\ \E r \in net : r.kind = "logout" /\ r.caller = "onUnauthorized"

\* C19: a change of a filter on the page on screen issues exactly one
\* request, a list request for page 1 and the filters after the change.
FilterChangeRelists ==
  [][view'.filters # view.filters /\ route' = route =>
       /\ Cardinality(Issued) = 1
       /\ \A t \in Issued :
            /\ t.kind = "list" /\ t.live
            /\ t.q = [page |-> 1, filters |-> view'.filters]
            /\ t.params = IncomeParams(t.q)]_vars

\* the list request for page 1 with the filter just set is in flight next to
\* the one for page 2 that was issued before the change
RelistedFromLaterPage ==
  \E r, t \in PendingLists :
    /\ r.q.page = 2 /\ r.q.filters = NoFilters
    /\ t.q.page = 1 /\ t.q.filters # NoFilters /\ t.q.filters = view.filters

\* C20: after a request of the page on screen or of the login form has failed
\* with a status other than 401, the page, respectively the form, holds an
\* error to display.
FailureReachesUser ==
  /\ last.status = 400 /\ last.live /\ last.kind \in Mutations \cup {"list"}
       /\ last.comp = route => view.error # NoError
  /\ last.status = 400 /\ last.kind = "login" /\ route = "login" => loginPage.error # ""

\* C21: while the user name or the password of the login form is empty no
\* login request is issued and a submit of the form leaves an error on it,
\* and while the form of the dialog fails its rules no create or update
\* request is issued.
ValidationIssuesNoRequest ==
  [][/\ route = "login" /\ (loginPage.username = "" \/ loginPage.password = "") =>
          /\ \A t \in Issued : t.kind # "login"
          /\ last' = NoLast /\ loginPage.error = "" /\ loginPage' # loginPage
               /\ loginPage'.username = loginPage.username
               /\ loginPage'.password = loginPage.password
               => loginPage'.error # ""
     /\ view.openDialog /\ ~view.formValid =>
          \A t \in Issued : t.kind \notin {"create", "update"}]_vars

\* the login form shows the error of a submit without password, no login
\* request is in flight, and nothing else is
SubmitRejectedByForm ==
  /\ route = "login" /\ loginPage.username # "" /\ loginPage.password = ""
  /\ loginPage.error = ValidationText /\ ~loginPage.submitting
  /\ net = {}

\* C22: no step of a page (a handler of the user or the continuation of a
\* list, reference or mutation request) changes the current user, and the
\* user is cleared only by the logout that the unauthorized handler called.
SessionWrittenByUnauthorizedOnly ==
  [][/\ last' = NoLast \/ last'.comp \in Comp => user' = user
     /\ user # NoUser /\ user' = NoUser =>
          \E r \in net : /\ r \notin net' /\ last'.kind = "logout"
                         /\ r.kind = "logout" /\ r.caller = "onUnauthorized"]_vars

\* C23: a step that issues a list request for the page on screen sets its
\* loading flag (and, in IncomeDocumentsPage, clears its error); the step in
\* which a list request of the page resolves clears the flag and leaves the
\* page with an error exactly if the request failed.
ListStateMachine ==
  [][/\ \A t \in Issued :
          t.kind = "list" /\ t.live /\ t.comp \in ListPages =>
            /\ view'.loading
            /\ t.comp = "income" => view'.error = NoError
     /\ \A r \in net, st \in Statuses :
          Settles(r, st) /\ r.kind = "list" /\ r.comp \in ListPages =>
            /\ ~view'.loading
            /\ view'.error # NoError <=> st # 200]_vars

\* C24: a registration leaves exactly the handler it was given in the one
\* slot; a 401 calls the handler that is registered when it arrives, once,
\* and calls nothing when none is registered; no other status calls a
\* handler; and every failed request is rejected to its caller.
SingleUnauthorizedHandler ==
  [][/\ last'.kind = "register" => onUnauthorized' = last'.handler
     /\ last'.status = 401 =>
          /\ last'.handler = onUnauthorized
          /\ last'.calls = IF onUnauthorized = "" THEN 0 ELSE 1
     /\ last'.status \in {200, 400} => last'.handler = "" /\ last'.calls = 0
     /\ last'.status \in {400, 401} => last'.rejected]_vars

\* a 401 has called the handler that replaced another one, and was rejected
ReplacementCalled ==
  /\ last.status = 401 /\ last.handler = "replacement" /\ last.calls = 1
  /\ last.rejected /\ onUnauthorized = "replacement"

\* C25: after a 401 the application reaches, in the end, a state without a
\* user in which no logout request of the unauthorized handler is in flight,
\* whatever the server answers.
UnauthorizedHandlingTerminates ==
  (last.status = 401) ~> (user = NoUser /\ HandlerIdle)

\* C26: while a list request of the page on screen is in flight, the loading
\* flag of the page is true.
LoadingWhileListing == PendingLists # {} => view.loading

\* C27: when a logout request has been answered, with success or with
\* failure, there is no current user, and the caller of logout has gone on:
\* the location is the login page.
LogoutClearsUser == last.kind = "logout" => user = NoUser /\ route = "login"

\* the logout request was answered with a failure and the user is cleared
FailedLogoutCleared ==
  /\ last.kind = "logout" /\ last.status = 400 /\ last.calls = 0
  /\ user = NoUser /\ route = "login" /\ net = {}

\* C28: the continuation of a login request sets the user and goes to the
\* start page when the request succeeded; when it failed it leaves the user as
\* it is and the form, no longer submitting, with a message that is not
\* empty: the error of the server, else the message of the transport.
LoginReportsOutcome ==
  [][\A r \in net :
       r.kind = "login" /\ r \notin net' /\ last'.kind = "login" =>
         IF last'.status = 200
           THEN user' = "user" /\ route' = "home"
           ELSE /\ user' = user /\ route' = "login"
                /\ ~loginPage'.submitting
                /\ loginPage'.error # ""
                /\ loginPage'.error = OrElse(last'.error, TransportMessage(last'.status))]_vars

\* a login has failed and the form shows the error of the server
ServerErrorOnForm ==
  /\ last.kind = "login" /\ last.status = 400 /\ last.error # Absent
  /\ route = "login" /\ loginPage.error = last.error /\ user = NoUser

\* C29: when a list request of the page on screen fails, the page holds an
\* error; IncomeDocumentsPage then has no items and the page count 0, while
\* AdvancePaymentsPage keeps the items and the page count it had.
FailedListByPage ==
  [][\A r \in net :
       Settles(r, 400) /\ r.kind = "list" /\ r.comp \in ListPages =>
         /\ view'.error # NoError /\ view'.error.prefix = "load"
         /\ IF r.comp = "income"
              THEN view'.items = <<>> /\ view'.count = 0
              ELSE view'.items = view.items /\ view'.count = view.count]_vars

\* the listing of page 2 of the advance payments has failed and the page
\* still shows the rows and the page count of page 1
RowsKeptAfterFailure ==
  /\ route = "advance" /\ last.status = 400 /\ last.kind = "list" /\ last.live
  /\ view.page = 2 /\ view.items # <<>> /\ view.count = 2 /\ view.error.prefix = "load"

\* C30: the continuation of a create or update request of the page on screen
\* closes the dialog and issues one list request when the request succeeded;
\* when it failed it leaves the dialog and the editing target as they are and
\* issues no list request.
DialogClosedBySuccessOnly ==
  [][\A r \in net, st \in Statuses :
       Settles(r, st) /\ r.kind \in {"create", "update"} =>
         IF st = 200
           THEN /\ ~view'.openDialog
                /\ Cardinality({t \in Issued : t.kind = "list"}) = 1
           ELSE /\ view'.openDialog = view.openDialog /\ view'.editing = view.editing
                /\ \A t \in Issued : t.kind # "list"]_vars

\* the update of a row has failed and the dialog is still open for that row
DialogOpenAfterFailedSave ==
  /\ last.status = 400 /\ last.kind = "update" /\ last.live
  /\ view.openDialog /\ view.editing # NoRow /\ net = {}

====
